---- MODULE Spec2Model ----
(***************************************************************************)
(* Model of rocksdb_benchmark.cpp: main() and the eight bench_* workloads  *)
(* it runs against a key-value engine.  The engine (open, close, destroy,  *)
(* Write, Get, iterate, GetProperty) is the environment: DB::Open, Write   *)
(* and GetProperty may each succeed or fail; DestroyDB, whose Status the   *)
(* program never reads, removes the storage at its path.  The value bytes  *)
(* of a record are kept as the literal prefix the workload formats them     *)
(* with.                                                                    *)
(***************************************************************************)
EXTENDS Integers, Naturals, Sequences, FiniteSets, TLC

\* ---------------------------------------------------------------- bounds
\* The #define'd counts of the program, scaled down.
NumRecords == 2       \* NUM_RECORDS of a whole run
BatchSize == 1        \* BATCH_SIZE of a whole run
MaxRecords == 4       \* the sequential load alone: NUM_RECORDS in 1..MaxRecords
MaxBatch == 3         \* the sequential load alone: BATCH_SIZE in 1..MaxBatch
NUM_READS == 1
NUM_UPDATES == 2
NUM_DELETES == 1
total_ops == 3
FlushThreshold == 1   \* the literal 100 in `batch.Count() > 100`

\* ---------------------------------------------------------- input domains
MemSamples == {0, 1}                 \* get_memory_usage(): kB, 0 when unavailable
PropertyValues == {<<1, 2>>}         \* decimal string an engine property may hold
OpRolls == {69, 70, 89, 90}          \* rand() % 100, the values around each branch

\* ------------------------------------------------------------- constants
DB_FILE == "benchmark_rocksdb"
BULK_FILE == "benchmark_bulk_rocksdb"
Paths == {DB_FILE, BULK_FILE}

EXIT_OK == 0
EXIT_OPEN_FAILED == 1

VARIABLES
    pc,              \* position of the single thread of control
    NUM_RECORDS,     \* record count of this build
    BATCH_SIZE,      \* sequential-load batch size of this build
    disk,            \* per path: does storage exist, and its key -> value data
    openHandles,     \* paths with a live DB handle
    i,               \* loop counter of the running workload
    batch,           \* the running workload's WriteBatch
    mem_start, mem_peak, mem_end,
    mem_usage,       \* std::string filled by GetProperty (sequence of digits)
    stats,           \* <<table_readers_mem, memtable_mem, cache_mem>>
    results,         \* print_result lines, in order
    summary,         \* the final memory summary, once printed
    exitCode,        \* value returned by main, once pc = "exit"
    \* history
    commits,         \* {[wl, sync]} of every Write issued so far
    commitLog,       \* batches (as sequences of gen tags) written by the running workload
    generated,       \* number of mutations generated by the running workload
    commitFailed,    \* a Write of the running workload returned an error
    openFailed,      \* some DB::Open returned an error
    destroyed,       \* paths on which DestroyDB has been called in this run
    unsupported      \* some GetProperty returned false

vars == <<pc, NUM_RECORDS, BATCH_SIZE, disk, openHandles, i, batch,
          mem_start, mem_peak, mem_end, mem_usage, stats, results, summary,
          exitCode, commits, commitLog, generated, commitFailed, openFailed,
          destroyed, unsupported>>

\* ---------------------------------------------------------------- helpers
Min(a, b) == IF a < b THEN a ELSE b

\* snprintf(key, "key_%08d", idx) / "bulk_key_%08d": prefix and index
Key(idx) == <<"key_", idx>>
BulkKey(idx) == <<"bulk_key_", idx>>

EmptyData == [k \in {} |-> "none"]

\* WriteBatch::Put / WriteBatch::Delete entries; gen is the order of generation
PutEntry(k, v, g) == [op |-> "put", key |-> k, value |-> v, gen |-> g]
DeleteEntry(k, g) == [op |-> "del", key |-> k, value |-> "none", gen |-> g]

\* the engine's data after one entry of a committed batch
ApplyEntry(data, e) ==
    IF e.op = "put"
    THEN [k \in (DOMAIN data) \cup {e.key} |-> IF k = e.key THEN e.value ELSE data[k]]
    ELSE [k \in (DOMAIN data) \ {e.key} |-> data[k]]

RECURSIVE ApplyBatch(_, _)
ApplyBatch(data, b) ==
    IF b = <<>> THEN data ELSE ApplyBatch(ApplyEntry(data, Head(b)), Tail(b))

Gens(b) == [k \in 1..Len(b) |-> b[k].gen]

\* a default-constructed WriteOptions, as it is before `sync = true` is set
DefaultWriteOptions == [sync |-> FALSE]
\* WriteOptions as every workload sets them: write_opts.sync = true
SyncWriteOptions == [sync |-> TRUE]

\* db->Write(write_opts, &batch) on path p by workload wl; the returned
\* Status is ignored by every caller.  A failed write applies nothing.
Write(p, wl, opts, b, ok) ==
    /\ disk' = IF ok THEN [disk EXCEPT ![p].data = ApplyBatch(@, b)] ELSE disk
    /\ commits' = commits \cup {[wl |-> wl, sync |-> opts.sync]}
    /\ commitLog' = Append(commitLog, Gens(b))
    /\ commitFailed' = (commitFailed \/ ~ok)

\* DestroyDB(path, options)
DestroyDB(d, p) == [d EXCEPT ![p] = [exists |-> FALSE, data |-> EmptyData]]

\* print_result(test, elapsed, ops)
print_result(test, ops) == Append(results, [name |-> test, ops |-> ops])

NoSummary == [printed |-> FALSE, initial |-> 0, final |-> 0, peak |-> 0, delta |-> 0]

\* on-disk state a run may find at a path: nothing, or a database left behind
StaleData == [k \in {<<"stale_", 0>>} |-> "stale"]
InitialDisk == {[exists |-> FALSE, data |-> EmptyData],
                [exists |-> TRUE, data |-> StaleData]}

\* the state at entry to main, but for the build's two counts
InitRun ==
    /\ pc = "main_start"
    /\ disk \in [Paths -> InitialDisk]
    /\ openHandles = {}
    /\ i = 0
    /\ batch = <<>>
    /\ mem_start = 0 /\ mem_peak = 0 /\ mem_end = 0
    /\ mem_usage = <<>>
    /\ stats = <<0, 0, 0>>
    /\ results = <<>>
    /\ summary = NoSummary
    /\ exitCode = EXIT_OK
    /\ commits = {}
    /\ commitLog = <<>>
    /\ generated = 0
    /\ commitFailed = FALSE
    /\ openFailed = FALSE
    /\ destroyed = {}
    /\ unsupported = FALSE

Init ==
    /\ NUM_RECORDS = NumRecords
    /\ BATCH_SIZE = BatchSize
    /\ InitRun

\* every build of the sequential load within the bounds
InitLoad ==
    /\ NUM_RECORDS \in 1..MaxRecords
    /\ BATCH_SIZE \in 1..MaxBatch
    /\ InitRun

\* ------------------------------------------------------------------ main
\* main, lines 455-464: mem_start = get_memory_usage(); configure options
MainStart ==
    /\ pc = "main_start"
    /\ \E m \in MemSamples : mem_start' = m
    /\ pc' = "main_destroy"
    /\ UNCHANGED <<NUM_RECORDS, BATCH_SIZE, disk, openHandles, i, batch, mem_peak,
                   mem_end, mem_usage, stats, results, summary, exitCode, commits,
                   commitLog, generated, commitFailed, openFailed, destroyed,
                   unsupported>>

\* main, line 467: DestroyDB(DB_FILE, options)
MainDestroy ==
    /\ pc = "main_destroy"
    /\ disk' = DestroyDB(disk, DB_FILE)
    /\ destroyed' = destroyed \cup {DB_FILE}
    /\ pc' = "main_open"
    /\ UNCHANGED <<NUM_RECORDS, BATCH_SIZE, openHandles, i, batch, mem_start,
                   mem_peak, mem_end, mem_usage, stats, results, summary, exitCode,
                   commits, commitLog, generated, commitFailed, openFailed,
                   unsupported>>

\* main, lines 469-473: DB::Open; on failure print the status and return 1
MainOpen ==
    /\ pc = "main_open"
    /\ \E ok \in BOOLEAN :
         IF ok
         THEN /\ openHandles' = openHandles \cup {DB_FILE}
              /\ disk' = [disk EXCEPT ![DB_FILE].exists = TRUE]
              /\ pc' = "main_opened"
              /\ UNCHANGED <<exitCode, openFailed>>
         ELSE /\ openFailed' = TRUE
              /\ exitCode' = EXIT_OPEN_FAILED
              /\ pc' = "exit"
              /\ UNCHANGED <<openHandles, disk>>
    /\ UNCHANGED <<NUM_RECORDS, BATCH_SIZE, i, batch, mem_start, mem_peak, mem_end,
                   mem_usage, stats, results, summary, commits, commitLog,
                   generated, commitFailed, destroyed, unsupported>>

\* main, lines 475-480: mem_after_open sampled, mem_peak = mem_after_open
MainAfterOpen ==
    /\ pc = "main_opened"
    /\ \E m \in MemSamples : mem_peak' = m
    /\ pc' = "seq_begin"
    /\ UNCHANGED <<NUM_RECORDS, BATCH_SIZE, disk, openHandles, i, batch, mem_start,
                   mem_end, mem_usage, stats, results, summary, exitCode, commits,
                   commitLog, generated, commitFailed, openFailed, destroyed,
                   unsupported>>

\* The part of a workload's entry common to all: locals initialised
\* (i = 0, an empty batch), nothing written or generated yet.
EnterWorkload(from, to) ==
    /\ pc = from
    /\ pc' = to
    /\ i' = 0
    /\ batch' = <<>>
    /\ commitLog' = <<>>
    /\ generated' = 0
    /\ commitFailed' = FALSE
    /\ UNCHANGED <<NUM_RECORDS, BATCH_SIZE, disk, openHandles, mem_start, mem_peak,
                   mem_end, mem_usage, stats, results, summary, exitCode, commits,
                   openFailed, destroyed, unsupported>>

\* a memory checkpoint of main: sample, fold into mem_peak
MemCheckpoint(from, to) ==
    /\ pc = from
    /\ pc' = to
    /\ \E m \in MemSamples : mem_peak' = IF m > mem_peak THEN m ELSE mem_peak
    /\ UNCHANGED <<NUM_RECORDS, BATCH_SIZE, disk, openHandles, i, batch, mem_start,
                   mem_end, mem_usage, stats, results, summary, exitCode, commits,
                   commitLog, generated, commitFailed, openFailed, destroyed,
                   unsupported>>

\* ------------------------------------------- BENCHMARK 1: sequential writes
SeqBegin == EnterWorkload("seq_begin", "seq_loop")

\* the inner loop `for (j = 0; j < BATCH_SIZE && i < NUM_RECORDS; j++, i++)`
\* started at index from: the index at which it stops
\* (SeqBatchEndNoLimit: the same loop without its `i < NUM_RECORDS` test)
SeqBatchEndNoLimit(from, n, b) == from + b
SeqBatchEnd(from, n, b) == Min(from + b, n)

SeqBatchOf(from, to) ==
    [k \in 1..(to - from) |-> PutEntry(Key(from + k - 1), "value", from + k - 1)]

\* one iteration of the outer loop: build a batch, Write it
SeqBatch ==
    /\ pc = "seq_loop"
    /\ i < NUM_RECORDS
    /\ LET to == SeqBatchEnd(i, NUM_RECORDS, BATCH_SIZE)
           b == SeqBatchOf(i, to)
       IN /\ i' = to
          /\ batch' = <<>>      \* the WriteBatch is local to the iteration
          /\ \E ok \in BOOLEAN : Write(DB_FILE, "sequential", SyncWriteOptions, b, ok)
    /\ UNCHANGED <<pc, NUM_RECORDS, BATCH_SIZE, openHandles, mem_start, mem_peak,
                   mem_end, mem_usage, stats, results, summary, exitCode, generated,
                   openFailed, destroyed, unsupported>>

\* loop exit and print_result
SeqDone ==
    /\ pc = "seq_loop"
    /\ ~(i < NUM_RECORDS)
    /\ results' = print_result("Sequential writes", NUM_RECORDS)
    /\ pc' = "mem_writes"
    /\ UNCHANGED <<NUM_RECORDS, BATCH_SIZE, disk, openHandles, i, batch, mem_start,
                   mem_peak, mem_end, mem_usage, stats, summary, exitCode, commits,
                   commitLog, generated, commitFailed, openFailed, destroyed,
                   unsupported>>

MemAfterWrites == MemCheckpoint("mem_writes", "reads_begin")

\* ---------------------------------------------- BENCHMARK 2: random reads
\* db->Get on a key of the range: reads the engine, changes nothing
Get(p, k) == k \in DOMAIN disk[p].data

\* a loop of NUM_READS Gets at rand() % NUM_RECORDS, then print_result
GetLoopStep(at) ==
    /\ pc = at
    /\ i < NUM_READS
    /\ \E idx \in 0..(NUM_RECORDS - 1) : Get(DB_FILE, Key(idx)) \in BOOLEAN
    /\ i' = i + 1
    /\ UNCHANGED <<pc, NUM_RECORDS, BATCH_SIZE, disk, openHandles, batch, mem_start,
                   mem_peak, mem_end, mem_usage, stats, results, summary, exitCode,
                   commits, commitLog, generated, commitFailed, openFailed,
                   destroyed, unsupported>>

GetLoopDone(at, test, to) ==
    /\ pc = at
    /\ ~(i < NUM_READS)
    /\ results' = print_result(test, NUM_READS)
    /\ pc' = to
    /\ UNCHANGED <<NUM_RECORDS, BATCH_SIZE, disk, openHandles, i, batch, mem_start,
                   mem_peak, mem_end, mem_usage, stats, summary, exitCode, commits,
                   commitLog, generated, commitFailed, openFailed, destroyed,
                   unsupported>>

ReadsBegin == EnterWorkload("reads_begin", "reads_loop")
ReadStep == GetLoopStep("reads_loop")
ReadsDone == GetLoopDone("reads_loop", "Random reads", "mem_reads")
MemAfterReads == MemCheckpoint("mem_reads", "scan")

\* -------------------------------------------- BENCHMARK 3: sequential scan
\* SeekToFirst .. Valid .. Next over the whole engine; count entries visited
Scan ==
    /\ pc = "scan"
    /\ results' = print_result("Sequential scan", Cardinality(DOMAIN disk[DB_FILE].data))
    /\ pc' = "updates_begin"
    /\ UNCHANGED <<NUM_RECORDS, BATCH_SIZE, disk, openHandles, i, batch, mem_start,
                   mem_peak, mem_end, mem_usage, stats, summary, exitCode, commits,
                   commitLog, generated, commitFailed, openFailed, destroyed,
                   unsupported>>

\* ------------------------------- BENCHMARKS 4 and 5: random updates, deletes
\* one loop iteration: a Put (update) or Delete at rand() % NUM_RECORDS
\* is appended to the workload's single batch
AccumulateStep(at, count, isPut) ==
    /\ pc = at
    /\ i < count
    /\ \E idx \in 0..(NUM_RECORDS - 1) :
         batch' = Append(batch, IF isPut
                                THEN PutEntry(Key(idx), "updated_value", generated + 1)
                                ELSE DeleteEntry(Key(idx), generated + 1))
    /\ generated' = generated + 1
    /\ i' = i + 1
    /\ UNCHANGED <<pc, NUM_RECORDS, BATCH_SIZE, disk, openHandles, mem_start,
                   mem_peak, mem_end, mem_usage, stats, results, summary, exitCode,
                   commits, commitLog, commitFailed, openFailed, destroyed,
                   unsupported>>

\* after the loop: one synchronous Write of the whole batch, print_result
AccumulateCommit(at, count, wl, test, to) ==
    /\ pc = at
    /\ ~(i < count)
    /\ \E ok \in BOOLEAN : Write(DB_FILE, wl, SyncWriteOptions, batch, ok)
    /\ results' = print_result(test, count)
    /\ batch' = <<>>             \* the batch goes out of scope on return
    /\ pc' = to
    /\ UNCHANGED <<NUM_RECORDS, BATCH_SIZE, openHandles, i, mem_start, mem_peak,
                   mem_end, mem_usage, stats, summary, exitCode, generated,
                   openFailed, destroyed, unsupported>>

UpdatesBegin == EnterWorkload("updates_begin", "updates_loop")
UpdateStep == AccumulateStep("updates_loop", NUM_UPDATES, TRUE)
UpdateCommit ==
    AccumulateCommit("updates_loop", NUM_UPDATES, "update", "Random updates",
                     "deletes_begin")

DeletesBegin == EnterWorkload("deletes_begin", "deletes_loop")
DeleteStep == AccumulateStep("deletes_loop", NUM_DELETES, FALSE)
DeleteCommit ==
    AccumulateCommit("deletes_loop", NUM_DELETES, "delete", "Random deletes",
                     "exists_begin")

\* --------------------------------------------- BENCHMARK 6: exists checks
ExistsBegin == EnterWorkload("exists_begin", "exists_loop")
ExistsStep == GetLoopStep("exists_loop")
ExistsDone == GetLoopDone("exists_loop", "Exists checks", "mixed_begin")

\* --------------------------------------------- BENCHMARK 7: mixed workload
MixedBegin == EnterWorkload("mixed_begin", "mixed_loop")

\* the three-way branch on op = rand() % 100: the batch after the operation
MixedOp(b, idx, op, g) ==
    IF op < 70 THEN b
    ELSE IF op < 90 THEN Append(b, PutEntry(Key(idx), "mixed_value", g))
    ELSE Append(b, DeleteEntry(Key(idx), g))

\* `if (batch.Count() > 100)`: is the batch due for a periodic flush
FlushDue(b) == Len(b) > FlushThreshold

\* batch.Clear() after the periodic Write
\* (KeepBatch: the batch as it would stay without the Clear)
KeepBatch(b) == b
AfterFlush(b) == <<>>

\* one iteration of the loop: the operation, then the periodic flush
MixedStep ==
    /\ pc = "mixed_loop"
    /\ i < total_ops
    /\ \E idx \in 0..(NUM_RECORDS - 1), op \in OpRolls :
         LET b1 == MixedOp(batch, idx, op, generated + 1) IN
         /\ generated' = IF op < 70 THEN generated ELSE generated + 1
         /\ IF FlushDue(b1)
            THEN /\ \E ok \in BOOLEAN :
                      Write(DB_FILE, "mixed_periodic", SyncWriteOptions, b1, ok)
                 /\ batch' = AfterFlush(b1)
            ELSE /\ batch' = b1
                 /\ UNCHANGED <<disk, commits, commitLog, commitFailed>>
    /\ i' = i + 1
    /\ UNCHANGED <<pc, NUM_RECORDS, BATCH_SIZE, openHandles, mem_start, mem_peak,
                   mem_end, mem_usage, stats, results, summary, exitCode,
                   openFailed, destroyed, unsupported>>

\* after the loop: flush the remainder if any, print_result
MixedFinish ==
    /\ pc = "mixed_loop"
    /\ ~(i < total_ops)
    /\ IF Len(batch) > 0
       THEN \E ok \in BOOLEAN : Write(DB_FILE, "mixed_final", SyncWriteOptions, batch, ok)
       ELSE UNCHANGED <<disk, commits, commitLog, commitFailed>>
    /\ results' = print_result("Mixed workload", total_ops)
    /\ batch' = <<>>             \* the batch goes out of scope on return
    /\ pc' = "mem_end"
    /\ UNCHANGED <<NUM_RECORDS, BATCH_SIZE, openHandles, i, mem_start, mem_peak,
                   mem_end, mem_usage, stats, summary, exitCode, generated,
                   openFailed, destroyed, unsupported>>

\* ------------------------------------------------- main, after the workloads
\* lines 497-498: mem_end sampled and folded into mem_peak
MemEnd ==
    /\ pc = "mem_end"
    /\ \E m \in MemSamples :
         /\ mem_end' = m
         /\ mem_peak' = IF m > mem_peak THEN m ELSE mem_peak
    /\ pc' = "stats_1"
    /\ UNCHANGED <<NUM_RECORDS, BATCH_SIZE, disk, openHandles, i, batch, mem_start,
                   mem_usage, stats, results, summary, exitCode, commits, commitLog,
                   generated, commitFailed, openFailed, destroyed, unsupported>>

\* std::stoull on a string of decimal digits
RECURSIVE stoull(_)
stoull(s) == IF s = <<>> THEN 0 ELSE 10 * stoull(SubSeq(s, 1, Len(s) - 1)) + s[Len(s)]

StatPc(k) == IF k = 1 THEN "stats_1" ELSE IF k = 2 THEN "stats_2" ELSE "stats_3"
AfterStat(k) == IF k = 1 THEN "stats_2" ELSE IF k = 2 THEN "stats_3" ELSE "close_main"

\* lines 515-522: db->GetProperty(name, &mem_usage), its bool result ignored,
\* then std::stoull(mem_usage).  An engine that does not supply the property
\* returns false and leaves the string cleared or untouched; stoull throws
\* std::invalid_argument on an empty string and nothing catches it.
GetProperty(k) ==
    /\ pc = StatPc(k)
    /\ \E supported \in BOOLEAN :
         /\ IF supported
            THEN /\ mem_usage' \in PropertyValues
                 /\ UNCHANGED unsupported
            ELSE /\ mem_usage' \in {mem_usage, <<>>}
                 /\ unsupported' = TRUE
         /\ IF mem_usage' = <<>>
            THEN /\ pc' = "terminated"
                 /\ UNCHANGED stats
            ELSE /\ stats' = [stats EXCEPT ![k] = stoull(mem_usage')]
                 /\ pc' = AfterStat(k)
    /\ UNCHANGED <<NUM_RECORDS, BATCH_SIZE, disk, openHandles, i, batch, mem_start,
                   mem_peak, mem_end, results, summary, exitCode, commits, commitLog,
                   generated, commitFailed, openFailed, destroyed>>

GetTableReadersMem == GetProperty(1)
GetMemtableMem == GetProperty(2)
GetCacheMem == GetProperty(3)

\* line 535: delete db
MainClose ==
    /\ pc = "close_main"
    /\ openHandles' = openHandles \ {DB_FILE}
    /\ pc' = "bulk_open"
    /\ UNCHANGED <<NUM_RECORDS, BATCH_SIZE, disk, i, batch, mem_start, mem_peak,
                   mem_end, mem_usage, stats, results, summary, exitCode, commits,
                   commitLog, generated, commitFailed, openFailed, destroyed,
                   unsupported>>

\* ------------------------------------------------ BENCHMARK 8: bulk insert
\* lines 397-413: configure, DB::Open("benchmark_bulk_rocksdb"); on failure
\* print a diagnostic and return to main
BulkOpen ==
    /\ pc = "bulk_open"
    /\ i' = 0 /\ batch' = <<>> /\ commitLog' = <<>> /\ generated' = 0
    /\ commitFailed' = FALSE
    /\ \E ok \in BOOLEAN :
         IF ok
         THEN /\ openHandles' = openHandles \cup {BULK_FILE}
              /\ disk' = [disk EXCEPT ![BULK_FILE].exists = TRUE]
              /\ pc' = "bulk_write"
              /\ UNCHANGED openFailed
         ELSE /\ openFailed' = TRUE
              /\ pc' = "summary"
              /\ UNCHANGED <<openHandles, disk>>
    /\ UNCHANGED <<NUM_RECORDS, BATCH_SIZE, mem_start, mem_peak, mem_end, mem_usage,
                   stats, results, summary, exitCode, commits, destroyed,
                   unsupported>>

BulkBatch(n) == [k \in 1..n |-> PutEntry(BulkKey(k - 1), "bulk_value", k)]

\* lines 415-429: NUM_RECORDS puts into one batch, one synchronous Write
BulkWrite ==
    /\ pc = "bulk_write"
    /\ i' = NUM_RECORDS
    /\ batch' = BulkBatch(NUM_RECORDS)
    /\ generated' = NUM_RECORDS
    /\ \E ok \in BOOLEAN :
         Write(BULK_FILE, "bulk", SyncWriteOptions, BulkBatch(NUM_RECORDS), ok)
    /\ pc' = "bulk_cleanup"
    /\ UNCHANGED <<NUM_RECORDS, BATCH_SIZE, openHandles, mem_start, mem_peak,
                   mem_end, mem_usage, stats, results, summary, exitCode,
                   openFailed, destroyed, unsupported>>

\* lines 431-436: delete db, DestroyDB, print_result, return
BulkCleanup ==
    /\ pc = "bulk_cleanup"
    /\ openHandles' = openHandles \ {BULK_FILE}
    /\ disk' = DestroyDB(disk, BULK_FILE)
    /\ destroyed' = destroyed \cup {BULK_FILE}
    /\ results' = print_result("Bulk insert", NUM_RECORDS)
    /\ batch' = <<>>             \* the batch goes out of scope on return
    /\ pc' = "summary"
    /\ UNCHANGED <<NUM_RECORDS, BATCH_SIZE, i, mem_start, mem_peak, mem_end,
                   mem_usage, stats, summary, exitCode, commits, commitLog,
                   generated, commitFailed, openFailed, unsupported>>

\* ----------------------------------------------------------- main, the end
\* lines 539-561: the summary
Summary ==
    /\ pc = "summary"
    /\ summary' = [printed |-> TRUE, initial |-> mem_start, final |-> mem_end,
                   peak |-> mem_peak, delta |-> mem_end - mem_start]
    /\ pc' = "final_destroy"
    /\ UNCHANGED <<NUM_RECORDS, BATCH_SIZE, disk, openHandles, i, batch, mem_start,
                   mem_peak, mem_end, mem_usage, stats, results, exitCode, commits,
                   commitLog, generated, commitFailed, openFailed, destroyed,
                   unsupported>>

\* lines 564-566: DestroyDB(DB_FILE), return 0
FinalDestroy ==
    /\ pc = "final_destroy"
    /\ disk' = DestroyDB(disk, DB_FILE)
    /\ destroyed' = destroyed \cup {DB_FILE}
    /\ exitCode' = EXIT_OK
    /\ pc' = "exit"
    /\ UNCHANGED <<NUM_RECORDS, BATCH_SIZE, openHandles, i, batch, mem_start,
                   mem_peak, mem_end, mem_usage, stats, results, summary, commits,
                   commitLog, generated, commitFailed, openFailed, unsupported>>

Next ==
    \/ MainStart \/ MainDestroy \/ MainOpen \/ MainAfterOpen
    \/ SeqBegin \/ SeqBatch \/ SeqDone \/ MemAfterWrites
    \/ ReadsBegin \/ ReadStep \/ ReadsDone \/ MemAfterReads
    \/ Scan
    \/ UpdatesBegin \/ UpdateStep \/ UpdateCommit
    \/ DeletesBegin \/ DeleteStep \/ DeleteCommit
    \/ ExistsBegin \/ ExistsStep \/ ExistsDone
    \/ MixedBegin \/ MixedStep \/ MixedFinish
    \/ MemEnd \/ GetTableReadersMem \/ GetMemtableMem \/ GetCacheMem
    \/ MainClose \/ BulkOpen \/ BulkWrite \/ BulkCleanup
    \/ Summary \/ FinalDestroy

Spec == Init /\ [][Next]_vars

\* main up to the return of bench_sequential_writes, for every build
NextLoad ==
    \/ MainStart \/ MainDestroy \/ MainOpen \/ MainAfterOpen
    \/ SeqBegin \/ SeqBatch \/ SeqDone

SpecLoad == InitLoad /\ [][NextLoad]_vars

\* ================================================================ claims
RECURSIVE Flatten(_)
Flatten(ss) == IF ss = <<>> THEN <<>> ELSE Head(ss) \o Flatten(Tail(ss))

\* C1: for every NUM_RECORDS >= 1 and BATCH_SIZE >= 1, when the sequential
\* load returns it has issued exactly ceil(N/B) commits, each non-empty and
\* full but for a short last one, carrying the indices 0..N-1 once each and
\* in order; and when the engine accepted every commit it holds exactly the
\* N keys key_0 .. key_(N-1).
SeqLoadCommitsAndKeys ==
    pc = "mem_writes" =>
        LET n == NUM_RECORDS
            b == BATCH_SIZE
            c == (n + b - 1) \div b
        IN /\ Len(commitLog) = c
           /\ \A k \in 1..Len(commitLog) :
                 /\ Len(commitLog[k]) >= 1
                 /\ Len(commitLog[k]) = IF k < c THEN b ELSE n - b * (c - 1)
           /\ Flatten(commitLog) = [k \in 1..n |-> k - 1]
           /\ ~commitFailed =>
                 /\ disk[DB_FILE].data = [k \in {Key(idx) : idx \in 0..(n - 1)} |-> "value"]
                 /\ Cardinality(DOMAIN disk[DB_FILE].data) = n

\* a load of 3 records in batches of 2 has returned: two commits, the last short
SeqLoadShortLastBatch ==
    /\ pc = "mem_writes"
    /\ NUM_RECORDS = 3 /\ BATCH_SIZE = 2
    /\ ~commitFailed
    /\ commitLog = << <<0, 1>>, <<2>> >>

\* C2: every Write issued by any workload is issued with sync = true.
AllCommitsSynchronous == \A c \in commits : c.sync = TRUE

\* every committing workload, and both flushes of the mixed one, have written
AllWorkloadsCommitted ==
    {c.wl : c \in commits} =
        {"sequential", "update", "delete", "mixed_periodic", "mixed_final", "bulk"}

\* C3: once an engine open has failed the run aborts: no summary is
\* printed and main does not return 0.
OpenFailureAbortsRun ==
    openFailed => /\ ~summary.printed
                  /\ pc = "exit" => exitCode # EXIT_OK

\* the workload whose commit the flag commitFailed speaks of, by its report name
FailedWorkload ==
    CASE pc \in {"seq_loop", "mem_writes", "reads_begin"} -> "Sequential writes"
      [] pc \in {"updates_loop", "deletes_begin"} -> "Random updates"
      [] pc \in {"deletes_loop", "exists_begin"} -> "Random deletes"
      [] pc \in {"mixed_loop", "mem_end", "stats_1", "stats_2", "stats_3",
                  "close_main", "bulk_open", "terminated"} -> "Mixed workload"
      [] OTHER -> "Bulk insert"

\* C4: a workload one of whose commits returned an error reports no
\* throughput result.
CommitFailureAbortsWorkload ==
    commitFailed => \A k \in 1..Len(results) : results[k].name # FailedWorkload

\* C5: an engine is open only at a path that was destroyed earlier in the
\* run, and it is empty when the first workload against it starts.
OpenPrecededByDestroy ==
    /\ \A p \in openHandles : p \in destroyed
    /\ pc = "seq_begin" => disk[DB_FILE].data = EmptyData
    /\ pc = "bulk_write" => disk[BULK_FILE].data = EmptyData

\* the bulk-load workload has returned to main
BulkReturned ==
    \/ pc \in {"summary", "final_destroy"}
    \/ pc = "exit" /\ summary.printed

\* C6: the two handles are never open together, and once the bulk-load
\* workload has returned its engine is closed and its storage removed.
BulkLifetimeNested ==
    /\ ~(DB_FILE \in openHandles /\ BULK_FILE \in openHandles)
    /\ BulkReturned => /\ BULK_FILE \notin openHandles
                       /\ ~disk[BULK_FILE].exists

\* C7: the reported peak is at least the reported initial and final samples.
PeakCoversInitialAndFinal ==
    summary.printed => /\ summary.peak >= summary.initial
                       /\ summary.peak >= summary.final

\* C8: when the engine does not supply a property the run is not ended by it.
UnsupportedStatDegrades == unsupported => pc # "terminated"

\* C9: in the mixed workload the mutations generated so far are exactly
\* those committed followed by those pending, each once and in generation
\* order; no commit is empty; and on return nothing is left pending.
MixedCommitsEachMutationOnce ==
    /\ pc = "mixed_loop" =>
          /\ Flatten(commitLog) \o Gens(batch) = [k \in 1..generated |-> k]
          /\ \A k \in 1..Len(commitLog) : commitLog[k] # <<>>
          /\ \A k \in 1..Len(batch) : batch[k].op \in {"put", "del"}
    /\ pc = "mem_end" =>
          /\ Flatten(commitLog) = [k \in 1..generated |-> k]
          /\ \A k \in 1..Len(commitLog) : commitLog[k] # <<>>

\* the mixed workload has returned after a periodic flush and a final flush
\* of a remainder
MixedPeriodicAndFinalFlush ==
    /\ pc = "mem_end"
    /\ Len(commitLog) = 2
    /\ Len(commitLog[2]) < Len(commitLog[1])
    /\ generated = Len(commitLog[1]) + Len(commitLog[2])

\* C10: every periodic commit of the mixed workload holds exactly
\* FlushThreshold mutations and the pending batch never holds more.
PeriodicFlushAtThreshold ==
    pc = "mixed_loop" =>
        /\ \A k \in 1..Len(commitLog) : Len(commitLog[k]) = FlushThreshold
        /\ Len(batch) <= FlushThreshold
====
